---- MODULE Spec2Model ----
(***************************************************************************)
(* Verification model of the Bellman-Ford arbitrage engine:                *)
(*   - bellmanford.rs      : rate graph and the negative-cycle finder      *)
(*   - exchanges/binance_ws.rs : stream listener and its detection tasks   *)
(*   - arb_detection.rs    : depth-aware validator                         *)
(*   - arb_execution.rs    : execution sequencer                           *)
(* Amounts and prices are fixed-point integers; a rate is a power of ten   *)
(* given by its exponent, so that -log10(rate) is an exact integer weight. *)
(***************************************************************************)
EXTENDS Integers, Sequences, FiniteSets, TLC

\* ------------------------------------------------------------------------
\* Bounds of the model
\* ------------------------------------------------------------------------
MaxEdges == 4
\* detection tasks the stream listener may spawn in one run
MaxSpawn == 3
\* amounts are whole multiples of 10^-MaxDecimals
MaxDecimals == 2
\* levels per order book handed to the weighted walk
MaxLevels == 2
\* store_arb_cycle calls started in one run
MaxStores == 3
\* iterations of the scanner loop
MaxRounds == 2
\* bits of the significand of the floating-point format the rounded walk
\* computes in (f64 has 53; the rounding rule is the same)
MantissaBits == 3

Currencies == {"A", "B", "C"}
\* log10 of the rates offered to the graph builder: 0.1 and 100
RateExps == {-1, 2}
\* tickers of the stream and the best bid / best ask values of its messages
WsSymbols == {"BTCUSDT", "ETHUSDT", "ETHBTC"}
BestPrices == {2, 4}
\* the validator: currencies, cycles offered to it and replies of the depth endpoint
ValCurrencies == {"USDT", "BTC", "ETH"}
DepthReplies ==
  { [kind |-> "ok", bids |-> <<<<2, 1>>, <<1, 2>>>>, asks |-> <<<<3, 1>>, <<4, 2>>>>],
    [kind |-> "ok", bids |-> <<<<1, 2>>, <<2, 1>>>>, asks |-> <<<<4, 1>>, <<3, 1>>>>],
    [kind |-> "ok", bids |-> <<>>, asks |-> <<<<3, 1>>>>],
    [kind |-> "ok", bids |-> <<<<2, 1>>>>, asks |-> <<>>],
    [kind |-> "http_error", bids |-> <<>>, asks |-> <<>>],
    [kind |-> "bad_json", bids |-> <<>>, asks |-> <<>>] }

\* ------------------------------------------------------------------------
\* Generic helpers
\* ------------------------------------------------------------------------
None == [some |-> FALSE, val |-> <<>>]
Some(x) == [some |-> TRUE, val |-> x]

RECURSIVE Reverse(_)
Reverse(s) == IF s = <<>> THEN <<>> ELSE Append(Reverse(Tail(s)), Head(s))

RECURSIVE SumWeights(_)
SumWeights(cycle) ==
  IF cycle = <<>> THEN 0 ELSE Head(cycle).weight + SumWeights(Tail(cycle))

\* ------------------------------------------------------------------------
\* State
\* ------------------------------------------------------------------------
VARIABLES
  edges,               \* BellmanFord.edges
  currency_index_map,  \* BellmanFord.currency_index_map
  ran_one,             \* find_negative_cycle has returned
  cycle_opt,           \* its result: Option<Vec<Edge>>
  ran_all,             \* find_all_negative_cycles has returned
  cycles,              \* its result: Vec<Vec<Edge>>
  ws_pc,               \* websocket_binance: "outer" | "inner" | "returned" | "panicked"
  shared_best_symbols, \* the shared Arc<Mutex<Vec<String>>> of best symbols
  tickers,             \* websocket_binance: tickers of the open subscription
  prices,              \* websocket_binance: prices (HashMap<String, f64>)
  is_calculating,      \* websocket_binance: the AtomicBool latch
  tasks,               \* the detection tasks in flight: "spawned" | "running"
  task_panicked,       \* a detection task has panicked
  val_pc,              \* validate_arbitrage_cycle: "idle" | "fetching" | "done" | "panicked"
  val_prices,          \* exchange.prices() seen by the validator
  val_cycle,           \* its argument cycle
  val_symbols,         \* symbols, one per leg
  val_directions,      \* directions, one per leg
  val_replies,         \* what the depth endpoint answered for each leg (<<>> while pending)
  val_results,         \* the Result of each get_orderbook_depth future (<<>> while pending)
  val_orderbooks,      \* the books handed to calculate_arbitrage
  val_result,          \* the returned Option<(real_rate, symbols, directions, budget)>
  MODE,                \* constants.rs MODE: Searcher | Listener (is_store, is_trade)
  ex_pc,               \* execute_arbitrage_cycle: "idle" | "balance" | "order" | "done"
                       \*   | "panicked" | "skipped"
  ex_call,             \* its arguments budget, cycle, symbols, directions
  ex_i,                \* the leg of the loop (1-based)
  ex_quantity,         \* the local `quantity`
  ex_amount_in,        \* `quantity` at the top of each leg started so far
  ex_balances,         \* the balance queries made so far: asset and answer
  ex_orders,           \* the market orders placed so far, each with its result
  call_pc,             \* a function called on its own: "idle" | "ready" | "returned"
  call_args,           \* its arguments
  call_result,         \* what it returned
  csv_exists,          \* arbitrage_data.csv exists
  csv_rows,            \* its rows: "header" or the number of the store that wrote the row
  store_pc,            \* per caller of store_arb_cycle: "idle" | "checked" | "opened"
  store_saw,           \* per caller: the file_exists it read
  store_id,            \* per caller: the number of its store
  store_log,           \* the stores that returned Ok, in the order they returned
  store_started,       \* how many stores have started
  store_overlapped,    \* two stores have run at the same time
  store_failed,        \* a store has returned Err
  scan_pc,             \* arb_scanner: "loop" | "returned" | "panicked"
  scan_cycles,         \* the cycles of this iteration not yet analysed
  scan_round,          \* iterations started
  scan_last            \* what the scanner did with the cycle it analysed last

bf_vars == <<edges, currency_index_map, ran_one, cycle_opt, ran_all, cycles>>
ws_vars == <<ws_pc, shared_best_symbols, tickers, prices, is_calculating, tasks,
            task_panicked>>
val_vars == <<val_pc, val_prices, val_cycle, val_symbols, val_directions,
              val_replies, val_results, val_orderbooks, val_result>>

ex_vars == <<MODE, ex_pc, ex_call, ex_i, ex_quantity, ex_amount_in, ex_balances, ex_orders>>

call_vars == <<call_pc, call_args, call_result>>

store_vars == <<csv_exists, csv_rows, store_pc, store_saw, store_id, store_log,
               store_started, store_overlapped, store_failed>>

scan_vars == <<scan_pc, scan_cycles, scan_round, scan_last>>

vars == <<bf_vars, ws_vars, val_vars, ex_vars, call_vars, store_vars, scan_vars>>

\* what a step of one component leaves alone
BfOnly == UNCHANGED <<ws_vars, val_vars, ex_vars, call_vars, store_vars, scan_vars>>
WsOnly == UNCHANGED <<bf_vars, val_vars, ex_vars, call_vars, store_vars, scan_vars>>
ValOnly == UNCHANGED <<bf_vars, ws_vars, ex_vars, call_vars, store_vars, scan_vars>>
ExOnly == UNCHANGED <<bf_vars, ws_vars, val_vars, call_vars, store_vars, scan_vars>>
CallOnly == UNCHANGED <<bf_vars, ws_vars, val_vars, ex_vars, store_vars, scan_vars>>
StoreOnly == UNCHANGED <<bf_vars, ws_vars, val_vars, ex_vars, call_vars, scan_vars>>
ScanOnly == UNCHANGED <<bf_vars, ws_vars, val_vars, ex_vars, call_vars, store_vars>>

\* ------------------------------------------------------------------------
\* bellmanford.rs
\* ------------------------------------------------------------------------
\* f64::INFINITY, above every finite distance of the model
Infinity == 1000000

Plus(d, w) == IF d = Infinity THEN Infinity ELSE d + w

\* weight: -f64::log10(*rate), on a rate 10^rate_exp
log10_weight(rate_exp) == 0 - rate_exp

Edge(from, to, rate_exp) ==
  [from |-> from, to |-> to, weight |-> log10_weight(rate_exp)]

\* first-seen dense index of the two currencies of a pushed edge
insert_index(m, c) ==
  IF c \in DOMAIN m THEN m
  ELSE [x \in DOMAIN m \cup {c} |-> IF x = c THEN Cardinality(DOMAIN m) ELSE m[x]]

get_currency_index(m, currency) == m[currency]

number_of_currencies(m) == Cardinality(DOMAIN m)

init_distance(m) ==
  [v \in 0 .. number_of_currencies(m) - 1 |-> IF v = 0 THEN 0 ELSE Infinity]

init_predecessor(m) == [v \in 0 .. number_of_currencies(m) - 1 |-> <<>>]

\* the relaxation test: distance[u] + edge.weight < distance[v]
violates_le(distance, u, v, weight) == Plus(distance[u], weight) <= distance[v]
violates(distance, u, v, weight) == Plus(distance[u], weight) < distance[v]

\* one pass over the edges in insertion order, from edge number i on
RECURSIVE relax_edges(_, _, _, _)
relax_edges(es, m, st, i) ==
  IF i > Len(es) THEN st
  ELSE LET edge == es[i]
           u == get_currency_index(m, edge.from)
           v == get_currency_index(m, edge.to)
       IN IF violates(st.distance, u, v, edge.weight)
          THEN relax_edges(es, m,
                 [distance |-> [st.distance EXCEPT ![v] = Plus(st.distance[u], edge.weight)],
                  predecessor |-> [st.predecessor EXCEPT ![v] = <<edge>>],
                  update |-> TRUE], i + 1)
          ELSE relax_edges(es, m, st, i + 1)

\* find_negative_cycle: up to V rounds, stopping after a round without update
relax_first_round_only(es, m, st, rounds) ==
  IF rounds = 0 THEN st ELSE relax_edges(es, m, [st EXCEPT !.update = FALSE], 1)
RECURSIVE relax_early_exit(_, _, _, _)
relax_early_exit(es, m, st, rounds) ==
  IF rounds = 0 THEN st
  ELSE LET nxt == relax_edges(es, m, [st EXCEPT !.update = FALSE], 1)
       IN IF ~nxt.update THEN nxt ELSE relax_early_exit(es, m, nxt, rounds - 1)

\* find_all_negative_cycles: V rounds, no early exit
RECURSIVE relax_all_rounds(_, _, _, _)
relax_all_rounds(es, m, st, rounds) ==
  IF rounds = 0 THEN st
  ELSE relax_all_rounds(es, m, relax_edges(es, m, st, 1), rounds - 1)

init_state(m) ==
  [distance |-> init_distance(m), predecessor |-> init_predecessor(m), update |-> FALSE]

NoVertex == 0 - 1

\* first loop of construct_cycle: walk predecessor until a vertex repeats
RECURSIVE find_cycle_start(_, _, _, _)
find_cycle_start(m, predecessor, current, visited) ==
  IF predecessor[current] = <<>> THEN NoVertex
  ELSE IF current \in visited THEN current
  ELSE find_cycle_start(m, predecessor,
         get_currency_index(m, predecessor[current][1].from), visited \cup {current})

\* second loop of construct_cycle: collect the edges around the cycle
RECURSIVE collect_cycle(_, _, _, _, _)
collect_cycle(m, predecessor, current, visited, cycle) ==
  IF predecessor[current] = <<>> THEN cycle
  ELSE IF current \in visited THEN cycle
  ELSE collect_cycle(m, predecessor,
         get_currency_index(m, predecessor[current][1].from),
         visited \cup {current}, Append(cycle, predecessor[current][1]))

\* the edges collected by construct_cycle before its length filter
reconstruct(m, start, predecessor) ==
  LET cycle_start == find_cycle_start(m, predecessor, start, {})
  IN IF cycle_start # NoVertex
     THEN collect_cycle(m, predecessor, cycle_start, {}, <<>>)
     ELSE <<>>

\* "Filter out cycles that are just a two-edge reciprocation"
filter_keep_two(cycle) == IF Len(cycle) <= 1 THEN <<>> ELSE cycle
filter_reciprocation(cycle) == IF Len(cycle) <= 2 THEN <<>> ELSE cycle

construct_cycle(m, start, predecessor) ==
  Reverse(filter_reciprocation(reconstruct(m, start, predecessor)))

\* position of the first violating edge from edge number i on, 0 when none
RECURSIVE first_violation(_, _, _, _)
first_violation(es, m, distance, i) ==
  IF i > Len(es) THEN 0
  ELSE IF violates(distance, get_currency_index(m, es[i].from),
                   get_currency_index(m, es[i].to), es[i].weight)
       THEN i
       ELSE first_violation(es, m, distance, i + 1)

find_negative_cycle(es, m) ==
  LET st == relax_early_exit(es, m, init_state(m), number_of_currencies(m))
      k == first_violation(es, m, st.distance, 1)
  IN IF k = 0 THEN None
     ELSE Some(construct_cycle(m, get_currency_index(m, es[k].to), st.predecessor))

endpoint_pairs(m, cycle) ==
  {<<get_currency_index(m, cycle[j].from), get_currency_index(m, cycle[j].to)>> :
     j \in 1 .. Len(cycle)}

Contains(seq, x) == \E j \in 1 .. Len(seq) : seq[j] = x

\* the check loop of find_all_negative_cycles, from edge number i on
RECURSIVE check_edges(_, _, _, _, _, _)
check_edges(es, m, st, visited_edges, out, i) ==
  IF i > Len(es) THEN out
  ELSE LET edge == es[i]
           u == get_currency_index(m, edge.from)
           v == get_currency_index(m, edge.to)
       IN IF <<u, v>> \in visited_edges
          THEN check_edges(es, m, st, visited_edges, out, i + 1)
          ELSE IF violates(st.distance, u, v, edge.weight)
               THEN LET cycle == construct_cycle(m, v, st.predecessor)
                    IN IF cycle # <<>>
                       THEN check_edges(es, m, st,
                              visited_edges \cup endpoint_pairs(m, cycle),
                              IF Contains(out, cycle) THEN out ELSE Append(out, cycle),
                              i + 1)
                       ELSE check_edges(es, m, st, visited_edges, out, i + 1)
               ELSE check_edges(es, m, st, visited_edges, out, i + 1)

find_all_negative_cycles(es, m) ==
  LET st == relax_all_rounds(es, m, init_state(m), number_of_currencies(m))
  IN check_edges(es, m, st, {}, <<>>, 1)

\* ---- actions of the finder ----
EmptyMap == [x \in {} |-> 0]

BfInit ==
  /\ edges = <<>>
  /\ currency_index_map = EmptyMap
  /\ ran_one = FALSE
  /\ cycle_opt = None
  /\ ran_all = FALSE
  /\ cycles = <<>>

\* one iteration of the loop of BellmanFord::new over exchange_rates
new_push(from, to, rate_exp) ==
  /\ ~ran_one /\ ~ran_all
  /\ Len(edges) < MaxEdges
  /\ edges' = Append(edges, Edge(from, to, rate_exp))
  /\ currency_index_map' = insert_index(insert_index(currency_index_map, from), to)
  /\ UNCHANGED <<ran_one, cycle_opt, ran_all, cycles>> /\ BfOnly

\* distance[0] = 0.0 needs at least one currency
FindNegativeCycle ==
  /\ ~ran_one
  /\ edges # <<>>
  /\ ran_one' = TRUE
  /\ cycle_opt' = find_negative_cycle(edges, currency_index_map)
  /\ UNCHANGED <<edges, currency_index_map, ran_all, cycles>> /\ BfOnly

\* run on the rates find_negative_cycle was run on, as in
\* it_runs_bellman_ford_single_and_multi; its result does not read cycle_opt
FindAllNegativeCycles ==
  /\ ran_one
  /\ ~ran_all
  /\ ran_all' = TRUE
  /\ cycles' = find_all_negative_cycles(edges, currency_index_map)
  /\ UNCHANGED <<edges, currency_index_map, ran_one, cycle_opt>> /\ BfOnly

BfNext ==
  \/ \E from \in Currencies, to \in Currencies, rate_exp \in RateExps :
       from # to /\ new_push(from, to, rate_exp)
  \/ FindNegativeCycle
  \/ FindAllNegativeCycles

\* ------------------------------------------------------------------------
\* exchanges/binance_ws.rs: the stream listener and its detection tasks
\* ------------------------------------------------------------------------
\* the lists the best-symbols writer can leave in the shared vector
BestSymbolLists == {<<"BTCUSDT", "ETHUSDT", "ETHBTC">>, <<"BTCUSDT", "ETHUSDT">>}

\* str::to_lowercase on the symbols of the model
to_lowercase(symbol) ==
  CASE symbol = "BTCUSDT" -> "btcusdt"
    [] symbol = "ETHUSDT" -> "ethusdt"
    [] symbol = "ETHBTC" -> "ethbtc"
    [] OTHER -> symbol

extract_tickers(best_symbols) ==
  [i \in 1 .. Len(best_symbols) |-> to_lowercase(best_symbols[i])]

\* the detection task body, by the way it leaves: the reason, whether it
\* panics there, and what the mode must allow for it
TaskOutcomes ==
  {"no_cycle", "validation_none", "below_threshold", "holdings_missing",
   "trade_failed", "persist_failed", "completed"}

task_panics(outcome) == outcome \in {"holdings_missing", "trade_failed", "persist_failed"}

\* the task's `match MODE`: which mode trades, which stores
listener_flags(mode) ==
  IF mode.kind = "Listener" THEN [is_store |-> mode.is_store, is_trade |-> mode.is_trade]
  ELSE [is_store |-> FALSE, is_trade |-> FALSE]

task_outcome_possible(outcome, mode) ==
  CASE outcome = "trade_failed" -> listener_flags(mode).is_trade
    [] outcome = "persist_failed" -> listener_flags(mode).is_store
    [] OTHER -> TRUE

WsInit ==
  /\ ws_pc = "outer"
  /\ shared_best_symbols = <<"BTCUSDT", "ETHUSDT", "ETHBTC">>
  /\ tickers = <<>>
  /\ prices = EmptyMap
  /\ is_calculating = FALSE
  /\ tasks = <<>>
  /\ task_panicked = FALSE

\* top of the outer loop: new exchange snapshot, empty price table, tickers
\* read from the shared vector, connect (a failed connect panics)
WsConnect(connected) ==
  /\ ws_pc = "outer"
  /\ IF connected
     THEN /\ ws_pc' = "inner"
          /\ prices' = EmptyMap
          /\ tickers' = extract_tickers(shared_best_symbols)
     ELSE /\ ws_pc' = "panicked"
          /\ UNCHANGED <<prices, tickers>>
  /\ UNCHANGED <<shared_best_symbols, is_calculating, tasks, task_panicked>>
  /\ WsOnly

\* another thread replaces the shared best symbols
BestSymbolsUpdate(best_symbols) ==
  /\ best_symbols # shared_best_symbols
  /\ shared_best_symbols' = best_symbols
  /\ UNCHANGED <<ws_pc, tickers, prices, is_calculating, tasks, task_panicked>>
  /\ WsOnly

mid_price(best_ask, best_bid) == (best_ask + best_bid) \div 2

insert_price(table, symbol, price) ==
  [x \in DOMAIN table \cup {symbol} |-> IF x = symbol THEN price ELSE table[x]]

\* "if prices.len() >= 3 { tokio::spawn(..) }": the new task has not run yet
spawn_detection(table, pool) ==
  IF Cardinality(DOMAIN table) >= 3 THEN Append(pool, "spawned") ELSE pool

\* "Guard: Check for best symbols updates": TRUE when the stream must restart
tickers_changed(due, best_symbols, subscribed) ==
  due /\ extract_tickers(best_symbols) # subscribed

\* one text message of the inner loop, from read_message to the spawn;
\* due: timestamp >= next_timestamp; closed: socket.close(None) is Ok
WsMessage(symbol, best_ask, best_bid, due, closed) ==
  /\ ws_pc = "inner"
  /\ Len(tasks) < MaxSpawn
  /\ \E i \in 1 .. Len(tickers) : tickers[i] = to_lowercase(symbol)
  /\ LET table == insert_price(prices, symbol, mid_price(best_ask, best_bid))
     IN /\ prices' = table
        /\ IF is_calculating
           THEN UNCHANGED <<ws_pc, tasks>>
           ELSE IF tickers_changed(due, shared_best_symbols, tickers)
           THEN /\ ws_pc' = IF closed THEN "outer" ELSE "returned"
                /\ UNCHANGED tasks
           ELSE /\ tasks' = spawn_detection(table, tasks)
                /\ UNCHANGED ws_pc
  /\ UNCHANGED <<shared_best_symbols, tickers, is_calculating, task_panicked>>
  /\ WsOnly

\* a message that is not Message::Text: break 'inner
WsNotText ==
  /\ ws_pc = "inner"
  /\ ws_pc' = "outer"
  /\ UNCHANGED <<shared_best_symbols, tickers, prices, is_calculating, tasks,
                 task_panicked>>
  /\ WsOnly

\* socket.read_message() is Err: .expect("Error reading message") panics
WsReadError ==
  /\ ws_pc = "inner"
  /\ ws_pc' = "panicked"
  /\ UNCHANGED <<shared_best_symbols, tickers, prices, is_calculating, tasks,
                 task_panicked>>
  /\ WsOnly

remove_task(pool, t) == SubSeq(pool, 1, t - 1) \o SubSeq(pool, t + 1, Len(pool))

\* first statement of the spawned task: is_calculating_clone.store(true)
TaskBegin(t) ==
  /\ tasks[t] = "spawned"
  /\ tasks' = [tasks EXCEPT ![t] = "running"]
  /\ is_calculating' = TRUE
  /\ UNCHANGED <<ws_pc, shared_best_symbols, tickers, prices, task_panicked>>
  /\ WsOnly

\* the task runs to its last statement: is_calculating_clone.store(false)
TaskEnd(t, outcome) ==
  /\ tasks[t] = "running"
  /\ ~task_panics(outcome)
  /\ task_outcome_possible(outcome, MODE)
  /\ tasks' = remove_task(tasks, t)
  /\ is_calculating' = FALSE
  /\ UNCHANGED <<ws_pc, shared_best_symbols, tickers, prices, task_panicked>>
  /\ WsOnly

\* the task panics on its way: tokio drops it, the rest of the process runs on
TaskPanic(t, outcome) ==
  /\ tasks[t] = "running"
  /\ task_panics(outcome)
  /\ task_outcome_possible(outcome, MODE)
  /\ tasks' = remove_task(tasks, t)
  /\ task_panicked' = TRUE
  /\ UNCHANGED <<ws_pc, shared_best_symbols, tickers, prices, is_calculating>>
  /\ WsOnly

WsNext ==
  \/ \E connected \in BOOLEAN : WsConnect(connected)
  \/ \E best_symbols \in BestSymbolLists : BestSymbolsUpdate(best_symbols)
  \/ \E symbol \in WsSymbols, best_ask \in BestPrices, best_bid \in BestPrices,
        due \in BOOLEAN, closed \in BOOLEAN :
       best_bid <= best_ask /\ WsMessage(symbol, best_ask, best_bid, due, closed)
  \/ WsNotText
  \/ WsReadError
  \/ \E t \in 1 .. Len(tasks) : TaskBegin(t)
  \/ \E t \in 1 .. Len(tasks), outcome \in TaskOutcomes : TaskEnd(t, outcome)
  \/ \E t \in 1 .. Len(tasks), outcome \in TaskOutcomes : TaskPanic(t, outcome)

\* ------------------------------------------------------------------------
\* Exact arithmetic on amounts, prices and rates (the program's f64 values)
\* ------------------------------------------------------------------------
RECURSIVE Gcd(_, _)
Gcd(a, b) == IF b = 0 THEN a ELSE Gcd(b, a % b)

Abs(x) == IF x < 0 THEN 0 - x ELSE x

\* the fraction n/d in lowest terms with a positive denominator
Frac(n, d) ==
  LET g == Gcd(Abs(n), Abs(d))
      sgn == IF d < 0 THEN 0 - 1 ELSE 1
  IN [n |-> sgn * (n \div g), d |-> sgn * (d \div g)]

RInt(k) == [n |-> k, d |-> 1]
RAdd(a, b) == Frac(a.n * b.d + b.n * a.d, a.d * b.d)
RSub(a, b) == Frac(a.n * b.d - b.n * a.d, a.d * b.d)
RMul(a, b) == Frac(a.n * b.n, a.d * b.d)
RDiv(a, b) == Frac(a.n * b.d, a.d * b.n)
RLess(a, b) == a.n * b.d < b.n * a.d
RLeq(a, b) == a.n * b.d <= b.n * a.d

\* f64 arithmetic: every operation returns the representable number nearest
\* to the exact result, ties to the even significand
RECURSIVE Pow2(_)
Pow2(k) == IF k = 0 THEN 1 ELSE 2 * Pow2(k - 1)

Pow2R(e) == IF e >= 0 THEN RInt(Pow2(e)) ELSE Frac(1, Pow2(0 - e))

\* the exponent e with 2^(MantissaBits-1) <= x / 2^e < 2^MantissaBits, x > 0
RECURSIVE fl_exponent(_, _)
fl_exponent(x, e) ==
  IF RLeq(RMul(RInt(Pow2(MantissaBits)), Pow2R(e)), x) THEN fl_exponent(x, e + 1)
  ELSE IF RLess(x, RMul(RInt(Pow2(MantissaBits - 1)), Pow2R(e))) THEN fl_exponent(x, e - 1)
  ELSE e

fl(x) ==
  IF x.n <= 0 THEN x
  ELSE LET e == fl_exponent(x, 0)
           m == RDiv(x, Pow2R(e))
           low == m.n \div m.d
           rest == m.n % m.d
           up == 2 * rest > m.d \/ (2 * rest = m.d /\ low % 2 = 1)
       IN RMul(RInt(IF up THEN low + 1 ELSE low), Pow2R(e))

FAdd(a, b) == fl(RAdd(a, b))
FSub(a, b) == fl(RSub(a, b))
FMul(a, b) == fl(RMul(a, b))
FDiv(a, b) == fl(RDiv(a, b))

\* ------------------------------------------------------------------------
\* constants.rs, models.rs
\* ------------------------------------------------------------------------
ASSET_HOLDINGS == {"USDT", "BTC"}
USD_BUDGET == 50

\* Direction::orderbook
orderbook_swapped(direction) == IF direction = "Forward" THEN "asks" ELSE "bids"
orderbook(direction) == IF direction = "Forward" THEN "bids" ELSE "asks"

\* Direction::side
side(direction) == IF direction = "Forward" THEN "SELL" ELSE "BUY"

\* ------------------------------------------------------------------------
\* exchanges/binance.rs: get_orderbook_depth
\* ------------------------------------------------------------------------
\* the registry of the exchange snapshot (exchange.symbols() keys)
ValRegistry == {"BTCUSDT", "ETHUSDT", "ETHBTC"}

\* place x in a price-sorted book, behind the levels it does not precede
RECURSIVE insert_level(_, _, _)
insert_level(x, book, ascending) ==
  IF book = <<>> THEN <<x>>
  ELSE IF (IF ascending THEN RLess(x[1], Head(book)[1]) ELSE RLess(Head(book)[1], x[1]))
       THEN <<x>> \o book
       ELSE <<Head(book)>> \o insert_level(x, Tail(book), ascending)

\* result.sort_by(..): stable, asks ascending by price, bids descending
RECURSIVE sort_by_price(_, _, _)
sort_by_price(levels, ascending, acc) ==
  IF levels = <<>> THEN acc
  ELSE sort_by_price(Tail(levels), ascending, insert_level(Head(levels), acc, ascending))

book_side(reply, book) == IF book = "asks" THEN reply.asks ELSE reply.bids

\* the price and quantity strings of each level, parsed to f64
parse_levels(levels) ==
  [j \in 1 .. Len(levels) |-> <<RInt(levels[j][1]), RInt(levels[j][2])>>]

\* Ok(levels) or the Err of a failed request; a body that is not JSON panics
get_orderbook_depth(reply, direction) ==
  IF reply.kind = "http_error" THEN [ok |-> FALSE, book |-> <<>>]
  ELSE LET book == orderbook(direction)
       IN [ok |-> TRUE,
           book |-> sort_by_price(parse_levels(book_side(reply, book)), book = "asks", <<>>)]

\* ------------------------------------------------------------------------
\* arb_detection.rs: the depth-aware validator
\* ------------------------------------------------------------------------
\* "Adjust the remaining quantity based on the direction of the trade"
remaining_quantity_multiplied(direction, remaining_budget, price) ==
  RMul(remaining_budget, price)
remaining_quantity(direction, remaining_budget, price) ==
  IF direction = "Reverse" THEN RDiv(remaining_budget, price)
  ELSE RMul(remaining_budget, price)

\* the walk of calculate_weighted_average_price from level i on
RECURSIVE walk_levels(_, _, _, _, _, _)
walk_levels(book, budget, direction, i, total_cost, total_quantity) ==
  IF i > Len(book) THEN [total_cost |-> total_cost, total_quantity |-> total_quantity]
  ELSE LET price == book[i][1]
           quantity == book[i][2]
           effective_quantity ==
             IF direction = "Reverse" THEN quantity ELSE RMul(quantity, price)
           cost == IF direction = "Reverse" THEN RMul(quantity, price) ELSE quantity
       IN IF RLess(budget, RAdd(total_cost, cost))
          THEN LET remaining_budget == RSub(budget, total_cost)
               IN [total_cost |-> RAdd(total_cost, remaining_budget),
                   total_quantity |->
                     RAdd(total_quantity, remaining_quantity(direction, remaining_budget, price))]
          ELSE IF RLeq(budget, RAdd(total_cost, cost))
               THEN [total_cost |-> RAdd(total_cost, cost),
                     total_quantity |-> RAdd(total_quantity, effective_quantity)]
               ELSE walk_levels(book, budget, direction, i + 1,
                      RAdd(total_cost, cost), RAdd(total_quantity, effective_quantity))

\* the same walk in floating point; `levels` counts the levels it has read
RECURSIVE walk_levels_rounded(_, _, _, _, _, _)
walk_levels_rounded(book, budget, direction, i, total_cost, total_quantity) ==
  IF i > Len(book)
  THEN [total_cost |-> total_cost, total_quantity |-> total_quantity, levels |-> i - 1]
  ELSE LET price == book[i][1]
           quantity == book[i][2]
           effective_quantity ==
             IF direction = "Reverse" THEN quantity ELSE FMul(quantity, price)
           cost == IF direction = "Reverse" THEN FMul(quantity, price) ELSE quantity
       IN IF RLess(budget, FAdd(total_cost, cost))
          THEN LET remaining_budget == FSub(budget, total_cost)
               IN [total_cost |-> FAdd(total_cost, remaining_budget),
                   total_quantity |->
                     FAdd(total_quantity,
                          fl(remaining_quantity(direction, remaining_budget, price))),
                   levels |-> i]
          ELSE IF RLeq(budget, FAdd(total_cost, cost))
               THEN [total_cost |-> FAdd(total_cost, cost),
                     total_quantity |-> FAdd(total_quantity, effective_quantity),
                     levels |-> i]
               ELSE walk_levels_rounded(book, budget, direction, i + 1,
                      FAdd(total_cost, cost), FAdd(total_quantity, effective_quantity))

\* Some((weighted_average_price, total_cost, total_quantity)) or None
calculate_weighted_average_price(book, budget, direction) ==
  LET w == walk_levels(book, budget, direction, 1, RInt(0), RInt(0))
  IN IF w.total_quantity = RInt(0) THEN None
     ELSE Some([weighted_price |->
                  IF direction = "Reverse" THEN RDiv(w.total_cost, w.total_quantity)
                  ELSE RDiv(w.total_quantity, w.total_cost),
                total_cost |-> w.total_cost,
                total_quantity |-> w.total_quantity])

\* "Calculate Real Rate": what real_rate is multiplied by
rate_factor_forward_only(direction, weighted_price) == weighted_price
rate_factor(direction, weighted_price) ==
  IF direction = "Forward" THEN weighted_price ELSE RDiv(RInt(1), weighted_price)

\* the loop of calculate_arbitrage from leg i on
RECURSIVE arbitrage_legs_same_amount(_, _, _, _, _)
arbitrage_legs_same_amount(books, directions, i, real_rate, amount_in) ==
  IF i > Len(directions) THEN Some(real_rate)
  ELSE LET trade_res == calculate_weighted_average_price(books[i], amount_in, directions[i])
       IN IF ~trade_res.some THEN None
          ELSE arbitrage_legs_same_amount(books, directions, i + 1,
                 RMul(real_rate, rate_factor(directions[i], trade_res.val.weighted_price)),
                 amount_in)
RECURSIVE arbitrage_legs(_, _, _, _, _)
arbitrage_legs(books, directions, i, real_rate, amount_in) ==
  IF i > Len(directions) THEN Some(real_rate)
  ELSE LET trade_res == calculate_weighted_average_price(books[i], amount_in, directions[i])
       IN IF ~trade_res.some THEN None
          ELSE arbitrage_legs(books, directions, i + 1,
                 RMul(real_rate, rate_factor(directions[i], trade_res.val.weighted_price)),
                 trade_res.val.total_quantity)

calculate_arbitrage(books, symbols, directions, budget) ==
  arbitrage_legs(books, directions, 1, RInt(1), budget)

starts_with(s, prefix) ==
  Len(prefix) <= Len(s) /\ SubSeq(s, 1, Len(prefix)) = prefix

\* "prefer to+from if present in the registry, else from+to"
pick_symbol(leg, registry) ==
  IF (leg.to \o leg.from) \in registry THEN leg.to \o leg.from ELSE leg.from \o leg.to

\* "if symbol.starts_with(leg.from.as_str())"
pick_direction(leg, symbol) ==
  IF starts_with(symbol, leg.from) THEN "Forward" ELSE "Reverse"

leg_symbol(leg) == pick_symbol(leg, ValRegistry)

leg_direction(leg) == pick_direction(leg, leg_symbol(leg))

\* the price the starting budget is divided by: a symbol, or "" for a stablecoin
budget_symbol(from) ==
  IF from \in {"BTC", "ETH", "BNB", "LINK"} THEN from \o "USDT" ELSE ""

recognised_start(from) == from \in {"BTC", "ETH", "BNB", "LINK", "USDT", "BUSD", "USDC"}

starting_budget(from, table) ==
  IF budget_symbol(from) = "" THEN RInt(USD_BUDGET)
  ELSE RDiv(RInt(USD_BUDGET), RInt(table[budget_symbol(from)]))

Pending(seq) == {i \in 1 .. Len(seq) : seq[i] = <<>>}

ValInit ==
  /\ val_pc = "idle"
  /\ val_prices \in {EmptyMap, [x \in {"BTCUSDT"} |-> 25]}
  /\ val_cycle = <<>>
  /\ val_symbols = <<>>
  /\ val_directions = <<>>
  /\ val_replies = <<>>
  /\ val_results = <<>>
  /\ val_orderbooks = <<>>
  /\ val_result = None

\* validate_arbitrage_cycle up to the join_all: the gates, the per-leg wiring
\* and the depth requests
Validate(cycle) ==
  /\ val_pc = "idle"
  /\ val_cycle' = cycle
  /\ IF cycle = <<>> \/ cycle[1].from \notin ASSET_HOLDINGS
        \/ ~recognised_start(cycle[1].from)
     THEN /\ val_pc' = "done"
          /\ val_result' = None
          /\ UNCHANGED <<val_symbols, val_directions, val_replies, val_results>>
     ELSE IF budget_symbol(cycle[1].from) # ""
             /\ budget_symbol(cycle[1].from) \notin DOMAIN val_prices
          THEN \* .expect("Expected price for ..")
               /\ val_pc' = "panicked"
               /\ UNCHANGED <<val_symbols, val_directions, val_replies,
                              val_results, val_result>>
          ELSE /\ val_pc' = "fetching"
               /\ val_symbols' = [i \in 1 .. Len(cycle) |-> leg_symbol(cycle[i])]
               /\ val_directions' = [i \in 1 .. Len(cycle) |-> leg_direction(cycle[i])]
               /\ val_replies' = [i \in 1 .. Len(cycle) |-> <<>>]
               /\ val_results' = [i \in 1 .. Len(cycle) |-> <<>>]
               /\ UNCHANGED val_result
  /\ UNCHANGED <<val_prices, val_orderbooks>> /\ ValOnly

\* one of the concurrent get_orderbook_depth futures completes
DepthReply(i, reply) ==
  /\ val_pc = "fetching"
  /\ i \in Pending(val_results)
  /\ val_replies' = [val_replies EXCEPT ![i] = <<reply>>]
  /\ IF reply.kind = "bad_json"
     THEN \* panic!("Failed to extract orderbook: ..")
          /\ val_pc' = "panicked"
          /\ UNCHANGED val_results
     ELSE /\ val_results' =
               [val_results EXCEPT ![i] = <<get_orderbook_depth(reply, val_directions[i])>>]
          /\ UNCHANGED val_pc
  /\ UNCHANGED <<val_prices, val_cycle, val_symbols, val_directions,
                 val_orderbooks, val_result>> /\ ValOnly

\* the books pushed by the loop over the join_all results, up to the first Err
RECURSIVE pushed_books(_, _)
pushed_books(results, i) ==
  IF i > Len(results) \/ ~results[i][1].ok THEN <<>>
  ELSE <<results[i][1].book>> \o pushed_books(results, i + 1)

\* after join_all: collect the books, compute the rate, return
ValidateJoin ==
  /\ val_pc = "fetching"
  /\ Pending(val_results) = {}
  /\ val_pc' = "done"
  /\ LET books == pushed_books(val_results, 1)
         budget == starting_budget(val_cycle[1].from, val_prices)
     IN /\ val_orderbooks' = books
        /\ val_result' =
             IF Len(books) < Len(val_results) THEN None
             ELSE LET real_rate == calculate_arbitrage(books, val_symbols, val_directions, budget)
                  IN IF ~real_rate.some THEN None
                     ELSE Some([real_rate |-> real_rate.val, symbols |-> val_symbols,
                                directions |-> val_directions, budget |-> budget])
  /\ UNCHANGED <<val_prices, val_cycle, val_symbols, val_directions,
                 val_replies, val_results>> /\ ValOnly

\* the cycles offered to the validator: the empty edge list and the closed
\* three-leg cycles over ValCurrencies
ValCycles ==
  {<<>>} \cup
  { <<[from |-> p[1], to |-> p[2], weight |-> 0 - 1],
      [from |-> p[2], to |-> p[3], weight |-> 0 - 1],
      [from |-> p[3], to |-> p[1], weight |-> 1]>> :
      p \in {q \in ValCurrencies \X ValCurrencies \X ValCurrencies :
               q[1] # q[2] /\ q[2] # q[3] /\ q[1] # q[3]} }

ValNext ==
  \/ \E cycle \in ValCycles : Validate(cycle)
  \/ \E i \in 1 .. Len(val_results), reply \in DepthReplies : DepthReply(i, reply)
  \/ ValidateJoin

\* ------------------------------------------------------------------------
\* helpers.rs: validate_quantity, on amounts in units of 10^-MaxDecimals
\* ------------------------------------------------------------------------
RECURSIVE Pow10(_)
Pow10(k) == IF k <= 0 THEN 1 ELSE 10 * Pow10(k - 1)

\* a decimal string of the symbol metadata: a number, or text that does not parse
Num(k) == [ok |-> TRUE, val |-> k]
Unparsable == [ok |-> FALSE, val |-> 0]

\* the grain, in units, of a value with `decimal_places` decimals
grain(decimal_places) == Pow10(MaxDecimals - decimal_places)

\* (quantity * precision_factor).round() / precision_factor: half away from zero
round_to_precision(quantity, decimal_places) ==
  LET g == grain(decimal_places)
  IN ((2 * quantity + g) \div (2 * g)) * g

\* the k up to 12 for which the f64 quotient of k/10 by 0.1 falls below k
\* (0.3 / 0.1 = 2.9999999999999996, 0.7 / 0.1 = 6.999999999999999, ..)
InexactTenths == {3, 6, 7, 12}

\* the f64 quotient quantity / step_size of an exact multiple is below it
quotient_falls_short(quantity, step_size) ==
  /\ step_size = Pow10(MaxDecimals - 1)
  /\ quantity % step_size = 0
  /\ (quantity \div step_size) \in InexactTenths

\* (quantity / step_size).trunc() * step_size when the quotient has a fraction
align_to_step(quantity, step_size) ==
  IF step_size <= 0 THEN quantity
  ELSE IF quotient_falls_short(quantity, step_size)
  THEN ((quantity \div step_size) - 1) * step_size
  ELSE IF quantity % step_size # 0
  THEN (quantity \div step_size) * step_size
  ELSE quantity

\* format!("{:.*}", decimal_places, quantity).parse(): nearest, ties to even
format_and_parse(quantity, decimal_places) ==
  LET g == grain(decimal_places)
      lo == (quantity \div g) * g
      r == quantity - lo
  IN IF 2 * r < g THEN lo
     ELSE IF 2 * r > g THEN lo + g
     ELSE IF (quantity \div g) % 2 = 0 THEN lo ELSE lo + g

QtyOk(q) == [kind |-> "Ok", qty |-> q]
QtyErr == [kind |-> "Err", qty |-> 0]
QtyPanic == [kind |-> "Panic", qty |-> 0]

validate_quantity(symbol_info, quantity, general_price, direction) ==
  IF ~symbol_info.min_qty.ok \/ ~symbol_info.max_qty.ok \/ ~symbol_info.step_size.ok
  THEN QtyErr
  ELSE
    LET decimal_places == IF direction = "Forward" THEN symbol_info.base_asset_precision
                          ELSE symbol_info.quote_asset_precision
        rounded == round_to_precision(quantity, decimal_places)
        stepped == IF direction = "Forward"
                   THEN align_to_step(rounded, symbol_info.step_size.val)
                   ELSE rounded
        q == format_and_parse(stepped, decimal_places)
    IN IF q = 0 THEN QtyErr
       ELSE IF direction = "Forward"
            THEN IF q < symbol_info.min_qty.val THEN QtyErr
                 ELSE IF q > symbol_info.max_qty.val THEN QtyErr
                 ELSE IF ~symbol_info.min_notional.ok THEN QtyPanic
                 ELSE IF q * general_price < symbol_info.min_notional.val THEN QtyErr
                 ELSE IF ~symbol_info.max_notional.ok THEN QtyPanic
                 ELSE IF q * general_price > symbol_info.max_notional.val THEN QtyErr
                 ELSE QtyOk(q)
            ELSE IF ~symbol_info.min_notional.ok THEN QtyPanic
                 ELSE IF q < symbol_info.min_notional.val THEN QtyErr
                 ELSE IF ~symbol_info.max_notional.ok THEN QtyPanic
                 ELSE IF q > symbol_info.max_notional.val THEN QtyErr
                 ELSE QtyOk(q)

\* ------------------------------------------------------------------------
\* arb_execution.rs: the execution sequencer, entered from arb_scanner
\* ------------------------------------------------------------------------
MAX_CYCLE_LENGTH == 5

\* MIN_ARB_THRESH = 1.000000015, in units of 10^-9
MIN_ARB_THRESH == 1000000015

\* rates handed to the scanner's threshold guard, in units of 10^-9
ExArbRates == {1000000000, 1000000015, 1100000000}

\* exchange.symbols() and exchange.prices() of the snapshot the executor reads
ExRegistry ==
  {"BTCUSDT", "ETHUSDT", "ETHBTC", "BNBETH", "LINKBNB", "LINKBTC", "ADALINK", "ADABTC"}

SymbolInfo(symbol) ==
  [symbol |-> symbol,
   base_asset_precision |-> IF symbol = "BTCUSDT" THEN 1 ELSE MaxDecimals,
   quote_asset_precision |-> IF symbol = "ETHBTC" THEN 0 ELSE MaxDecimals,
   min_qty |-> IF symbol = "BNBETH" THEN Unparsable ELSE Num(10),
   max_qty |-> Num(900000),
   step_size |-> IF symbol = "ETHUSDT" THEN Num(3) ELSE Num(10),
   min_notional |-> IF symbol = "ADALINK" THEN Unparsable ELSE Num(100),
   max_notional |-> Num(900000000)]

general_prices(symbol) == IF symbol = "BTCUSDT" THEN 30000 ELSE 20

leg(from, to) == [from |-> from, to |-> to, weight |-> 0 - 1]

ex_leg_symbol(l) ==
  IF (l.to \o l.from) \in ExRegistry THEN l.to \o l.from ELSE l.from \o l.to

ex_leg_direction(l) ==
  IF starts_with(ex_leg_symbol(l), l.from) THEN "Forward" ELSE "Reverse"

\* the arguments validate_arbitrage_cycle hands over for a cycle
wired_call(cycle, budget) ==
  [budget |-> budget, cycle |-> cycle,
   symbols |-> [i \in 1 .. Len(cycle) |-> ex_leg_symbol(cycle[i])],
   directions |-> [i \in 1 .. Len(cycle) |-> ex_leg_direction(cycle[i])]]

\* the cycles the executor is called with: two legs (scenario S6), three legs
\* from each starting currency, five legs, six legs
ExCycles ==
  { <<leg("BTC", "USDT"), leg("USDT", "BTC")>>,
    <<leg("BTC", "USDT"), leg("USDT", "ETH"), leg("ETH", "BTC")>>,
    <<leg("USDT", "BTC"), leg("BTC", "ETH"), leg("ETH", "USDT")>>,
    <<leg("ETH", "BTC"), leg("BTC", "USDT"), leg("USDT", "ETH")>>,
    <<leg("BTC", "ADA"), leg("ADA", "LINK"), leg("LINK", "BTC")>>,
    <<leg("BTC", "USDT"), leg("USDT", "ETH"), leg("ETH", "BNB"), leg("BNB", "LINK"),
      leg("LINK", "BTC")>>,
    <<leg("BTC", "USDT"), leg("USDT", "ETH"), leg("ETH", "BNB"), leg("BNB", "LINK"),
      leg("LINK", "ADA"), leg("ADA", "BTC")>> }

ExBudgets == {100, 5000}

\* a call whose directions list is one short of its symbols list
short_directions(call) ==
  [call EXCEPT !.directions = SubSeq(call.directions, 1, Len(call.directions) - 1)]

ExCalls ==
  LET wired == {wired_call(c, b) : c \in ExCycles, b \in ExBudgets}
  IN wired \cup {short_directions(call) : call \in {w \in wired : Len(w.cycle) = 3}}

\* answers of the account endpoint (free balance) and of the order endpoint
ExBalanceAnswers == {0, 146, 150, 9000000}
Fill(status, base, quote) == [kind |-> "Ok", status |-> status, base |-> base, quote |-> quote]
OrderError == [kind |-> "Err", status |-> "", base |-> 0, quote |-> 0]
S6Fill1 == Fill("FILLED", 100, 3000000)
S6Fill2 == Fill("FILLED", 2, 60000)
ExOrderAnswers ==
  {S6Fill1, S6Fill2, Fill("EXPIRED", 100, 3000000), Fill("FILLED", 0, 0), OrderError}

NoCall == [budget |-> 0, cycle |-> <<>>, symbols |-> <<>>, directions |-> <<>>]

ExIdle ==
  /\ ex_pc = "idle"
  /\ ex_call = NoCall
  /\ ex_i = 0
  /\ ex_quantity = 0
  /\ ex_amount_in = <<>>
  /\ ex_balances = <<>>
  /\ ex_orders = <<>>

ExInit ==
  /\ MODE \in [kind : {"Searcher", "Listener"}, is_store : BOOLEAN, is_trade : BOOLEAN]
  /\ ExIdle

\* "Guard: Ensure mode is set to trade"
mode_is_trade(mode) == mode.is_trade

\* the guards on the leg count, in the order of the code; TRUE when one panics
leg_count_panics_no_min(symbols) == Len(symbols) > MAX_CYCLE_LENGTH
leg_count_panics(symbols) == Len(symbols) > MAX_CYCLE_LENGTH \/ Len(symbols) < 3

\* assert_eq!(symbols.len(), directions.len())
lengths_differ(symbols, directions) == Len(symbols) # Len(directions)

\* the scanner's guard: cycle[0].from (an index panic on an empty cycle)
holdings_panics(cycle) == cycle = <<>> \/ cycle[1].from \notin ASSET_HOLDINGS

\* the scanner's (is_store, is_trade) for its own mode
scanner_flags(mode) ==
  IF mode.kind = "Searcher" THEN [is_store |-> mode.is_store, is_trade |-> mode.is_trade]
  ELSE [is_store |-> FALSE, is_trade |-> FALSE]

\* the top of the leg loop: `let leg = &cycle[i]` panics past the end of cycle
enter_leg(call, i, quantity) ==
  IF i > Len(call.cycle)
  THEN /\ ex_pc' = "panicked"
       /\ UNCHANGED <<ex_i, ex_amount_in>>
  ELSE /\ ex_pc' = "balance"
       /\ ex_i' = i
       /\ ex_amount_in' = Append(ex_amount_in, quantity)

\* arb_scanner from the threshold guard to the first await of
\* execute_arbitrage_cycle
ScannerTrade(call, arb_rate) ==
  /\ ex_pc = "idle"
  /\ ex_call' = call
  /\ UNCHANGED <<MODE, ex_balances, ex_orders>>
  /\ IF arb_rate < MIN_ARB_THRESH
     THEN ex_pc' = "skipped" /\ UNCHANGED <<ex_i, ex_quantity, ex_amount_in>>
     ELSE IF holdings_panics(call.cycle)
     THEN ex_pc' = "panicked" /\ UNCHANGED <<ex_i, ex_quantity, ex_amount_in>>
     ELSE IF ~scanner_flags(MODE).is_trade
     THEN ex_pc' = "skipped" /\ UNCHANGED <<ex_i, ex_quantity, ex_amount_in>>
     ELSE IF \/ ~mode_is_trade(MODE)
             \/ leg_count_panics(call.symbols)
             \/ lengths_differ(call.symbols, call.directions)
     THEN ex_pc' = "panicked" /\ UNCHANGED <<ex_i, ex_quantity, ex_amount_in>>
     ELSE /\ ex_quantity' = call.budget
          /\ enter_leg(call, 1, call.budget)
  /\ ExOnly

\* "Adjust quantity if lower asset balance"
clamp_never(quantity, asset_balance) == quantity
clamp_to_balance(quantity, asset_balance) ==
  IF asset_balance < quantity THEN asset_balance ELSE quantity

\* the balance answer arrives: clamp, look the symbol up, normalize
LegBalance(answer) ==
  /\ ex_pc = "balance"
  /\ ex_balances' = Append(ex_balances, [asset |-> ex_call.cycle[ex_i].from, free |-> answer])
  /\ LET symbol == ex_call.symbols[ex_i]
         clamped == clamp_to_balance(ex_quantity, answer)
         normal == validate_quantity(SymbolInfo(symbol), clamped, general_prices(symbol),
                                     ex_call.directions[ex_i])
     IN IF answer = 0 \/ symbol \notin ExRegistry \/ normal.kind = "Panic"
        THEN ex_pc' = "panicked" /\ UNCHANGED ex_quantity
        ELSE /\ ex_pc' = "order"
             /\ ex_quantity' = IF normal.kind = "Ok" THEN normal.qty ELSE clamped
  /\ UNCHANGED <<MODE, ex_call, ex_i, ex_amount_in, ex_orders>>
  /\ ExOnly

\* "Guard: Ensure success else panic"
fill_rejected_status_only(answer) == answer.kind = "Err" \/ answer.status # "FILLED"
fill_rejected(answer) ==
  answer.kind = "Err" \/ answer.base = 0 \/ answer.status # "FILLED"

\* "Update quantity for next trade"
thread_amount_keep(direction, answer, quantity) == quantity
thread_amount_swapped(direction, answer, quantity) ==
  IF direction = "Forward" THEN answer.base ELSE answer.quote
thread_amount(direction, answer, quantity) ==
  IF direction = "Forward" THEN answer.quote ELSE answer.base

\* the market order of the leg is placed and its result handled
LegOrder(answer) ==
  /\ ex_pc = "order"
  /\ ex_orders' = Append(ex_orders,
       [leg |-> ex_i, symbol |-> ex_call.symbols[ex_i],
        direction |-> ex_call.directions[ex_i],
        side |-> side(ex_call.directions[ex_i]),
        quantity |-> ex_quantity, result |-> answer])
  /\ IF fill_rejected(answer)
     THEN ex_pc' = "panicked" /\ UNCHANGED <<ex_i, ex_quantity, ex_amount_in>>
     ELSE IF ex_i < Len(ex_call.symbols)
     THEN LET quantity == thread_amount(ex_call.directions[ex_i], answer, ex_quantity)
          IN ex_quantity' = quantity /\ enter_leg(ex_call, ex_i + 1, quantity)
     ELSE ex_pc' = "done" /\ UNCHANGED <<ex_i, ex_quantity, ex_amount_in>>
  /\ UNCHANGED <<MODE, ex_call, ex_balances>>
  /\ ExOnly

ExNext ==
  \/ \E call \in ExCalls, arb_rate \in ExArbRates : ScannerTrade(call, arb_rate)
  \/ \E answer \in ExBalanceAnswers : LegBalance(answer)
  \/ \E answer \in ExOrderAnswers : LegOrder(answer)

\* the sequences over S of length at most n
SeqsUpTo(S, n) == UNION {[1 .. k -> S] : k \in 0 .. n}

\* ------------------------------------------------------------------------
\* arb_detection.rs: arb_scanner, the loop over the cycles of find_all
\* ------------------------------------------------------------------------
\* what run_bellman_ford_multi hands to one iteration
ScanCycleLists == SeqsUpTo(ExCycles, 2)

\* validate_arbitrage_cycle as the scanner sees it
ScanValidations == {"panic", "none", "some"}

NoScan ==
  [cycle |-> <<>>, validated |-> FALSE, validation |-> "none", arb_rate |-> 0,
   traded |-> "no", persisted |-> "no"]

ScanIdle ==
  /\ scan_pc = "loop"
  /\ scan_cycles = <<>>
  /\ scan_round = 0
  /\ scan_last = NoScan

\* "Guard: Ensure cycle length"
cycle_too_long_never(cycle) == FALSE
cycle_too_long(cycle) == Len(cycle) > MAX_CYCLE_LENGTH

\* the body of `for cycle in cycles` for one cycle; validation, arb_rate,
\* trade_ok and store_ok are what the calls it makes return
scan_cycle(cycle, mode, validation, arb_rate, trade_ok, store_ok) ==
  LET seen == [NoScan EXCEPT !.cycle = cycle]
      valid == [seen EXCEPT !.validated = TRUE, !.validation = validation]
      rated == [valid EXCEPT !.arb_rate = arb_rate]
      flags == scanner_flags(mode)
      traded == IF flags.is_trade
                THEN [rated EXCEPT !.traded = IF trade_ok THEN "ok" ELSE "failed"]
                ELSE rated
      stored == [traded EXCEPT !.persisted = IF store_ok THEN "ok" ELSE "failed"]
  IN IF cycle_too_long(cycle) THEN [pc |-> "loop", last |-> seen]
     ELSE IF validation = "panic" THEN [pc |-> "panicked", last |-> valid]
     ELSE IF validation = "none" THEN [pc |-> "loop", last |-> valid]
     ELSE IF arb_rate < MIN_ARB_THRESH THEN [pc |-> "loop", last |-> rated]
     ELSE IF holdings_panics(cycle) THEN [pc |-> "panicked", last |-> rated]
     ELSE IF flags.is_trade /\ ~trade_ok THEN [pc |-> "panicked", last |-> traded]
     ELSE IF ~flags.is_store THEN [pc |-> "loop", last |-> traded]
     ELSE IF store_ok THEN [pc |-> "loop", last |-> stored]
     ELSE [pc |-> "returned", last |-> stored]

\* top of the loop: sleep, Binance::new, run_bellman_ford_multi
ScanRefresh(found) ==
  /\ scan_pc = "loop"
  /\ scan_cycles = <<>>
  /\ scan_round < MaxRounds
  /\ scan_round' = scan_round + 1
  /\ scan_cycles' = found
  /\ UNCHANGED <<scan_pc, scan_last>>
  /\ ScanOnly

\* one pass of the for loop
ScanCycle(validation, arb_rate, trade_ok, store_ok) ==
  /\ scan_pc = "loop"
  /\ scan_cycles # <<>>
  /\ LET out == scan_cycle(Head(scan_cycles), MODE, validation, arb_rate, trade_ok, store_ok)
     IN /\ scan_pc' = out.pc
        /\ scan_last' = out.last
  /\ scan_cycles' = Tail(scan_cycles)
  /\ UNCHANGED scan_round
  /\ ScanOnly

ScanNext ==
  \/ \E found \in ScanCycleLists : ScanRefresh(found)
  \/ \E validation \in ScanValidations, arb_rate \in ExArbRates,
        trade_ok \in BOOLEAN, store_ok \in BOOLEAN :
       ScanCycle(validation, arb_rate, trade_ok, store_ok)

\* ------------------------------------------------------------------------
\* Functions called on their own, on arguments drawn from bounded sets
\* ------------------------------------------------------------------------
CallIdle ==
  /\ call_pc = "idle"
  /\ call_args = <<>>
  /\ call_result = None

WalkPrices == {RInt(1), RInt(2), RInt(3)}
WalkQuantities == {Frac(1, 2), RInt(1), RInt(2)}
WalkBudgets == {RInt(1), RInt(2), RInt(3), Frac(7, 2)}

S3Walk ==
  [orderbook |-> <<<<RInt(100), RInt(1)>>, <<RInt(101), RInt(1)>>, <<RInt(102), RInt(5)>>>>,
   budget |-> RInt(2), direction |-> "Forward"]
S4Walk ==
  [orderbook |-> <<<<RInt(100), Frac(1, 2)>>, <<RInt(99), RInt(10)>>>>,
   budget |-> RInt(60), direction |-> "Reverse"]

WalkArgs ==
  [orderbook : SeqsUpTo(WalkPrices \X WalkQuantities, MaxLevels),
   budget : WalkBudgets, direction : {"Forward", "Reverse"}]
  \cup {S3Walk, S4Walk}

WalkInit ==
  /\ call_pc = "ready"
  /\ call_args \in WalkArgs
  /\ call_result = None

WalkCall ==
  /\ call_pc = "ready"
  /\ call_pc' = "returned"
  /\ call_result' = calculate_weighted_average_price(call_args.orderbook, call_args.budget,
                                                      call_args.direction)
  /\ UNCHANGED call_args /\ CallOnly

\* books, budgets and amounts that the floating-point format holds exactly
RoundedPrices == {RInt(1), RInt(2)}
RoundedQuantities == {Frac(3, 4), Frac(3, 2), RInt(6)}
RoundedBudgets == {RInt(1), Frac(7, 2), RInt(7)}

RoundedInit ==
  /\ call_pc = "ready"
  /\ call_args \in [orderbook : SeqsUpTo(RoundedPrices \X RoundedQuantities, MaxLevels),
                     budget : RoundedBudgets, direction : {"Forward", "Reverse"}]
  /\ call_result = None

RoundedCall ==
  /\ call_pc = "ready"
  /\ call_pc' = "returned"
  /\ call_result' = walk_levels_rounded(call_args.orderbook, call_args.budget,
                                        call_args.direction, 1, RInt(0), RInt(0))
  /\ UNCHANGED call_args /\ CallOnly

\* baseline books of two legs and, level by level, strictly better ones: a
\* Forward leg (bids) gains `gain` on every price, a Reverse leg (asks) loses it
MonoPrices == {RInt(2), RInt(3)}
MonoQuantities == {RInt(1), RInt(2)}
MonoGains == {Frac(1, 2), RInt(1)}
MonoBudgets == {RInt(1), RInt(3)}
MonoBooks == SeqsUpTo(MonoPrices \X MonoQuantities, MaxLevels) \ {<<>>}

better_book(book, direction, gain) ==
  [j \in 1 .. Len(book) |->
     <<IF direction = "Forward" THEN RAdd(book[j][1], gain) ELSE RSub(book[j][1], gain),
       book[j][2]>>]

MonoInit ==
  /\ call_pc = "ready"
  /\ \E b1 \in MonoBooks, b2 \in MonoBooks, d1 \in {"Forward", "Reverse"},
        d2 \in {"Forward", "Reverse"}, gain \in MonoGains, budget \in MonoBudgets :
       call_args = [symbols |-> <<"BTCUSDT", "ETHBTC">>,
                    directions |-> <<d1, d2>>,
                    baseline |-> <<b1, b2>>,
                    better |-> <<better_book(b1, d1, gain), better_book(b2, d2, gain)>>,
                    budget |-> budget]
  /\ call_result = None

\* calculate_arbitrage on the baseline books and on the better books
MonoCall ==
  /\ call_pc = "ready"
  /\ call_pc' = "returned"
  /\ call_result' =
       Some([baseline |-> calculate_arbitrage(call_args.baseline, call_args.symbols,
                                             call_args.directions, call_args.budget),
             better |-> calculate_arbitrage(call_args.better, call_args.symbols,
                                           call_args.directions, call_args.budget)])
  /\ UNCHANGED call_args /\ CallOnly

\* three-leg cycles with books of one or more levels, some too shallow for
\* the amount that reaches them
ChainPrices == {Frac(1, 2), RInt(2)}
ChainQuantities == {RInt(4)}
ChainBudgets == {RInt(1), RInt(6)}
ChainBooks == SeqsUpTo(ChainPrices \X ChainQuantities, MaxLevels) \ {<<>>}

ChainInit ==
  /\ call_pc = "ready"
  /\ call_args \in [orderbooks : [1 .. 3 -> ChainBooks],
                     symbols : {<<"BTCUSDT", "ETHUSDT", "ETHBTC">>},
                     directions : [1 .. 3 -> {"Forward", "Reverse"}],
                     budget : ChainBudgets]
  /\ call_result = None

ChainCall ==
  /\ call_pc = "ready"
  /\ call_pc' = "returned"
  /\ call_result' = calculate_arbitrage(call_args.orderbooks, call_args.symbols,
                                        call_args.directions, call_args.budget)
  /\ UNCHANGED call_args /\ CallOnly

\* ------------------------------------------------------------------------
\* arb_detection.rs: the symbol and direction of one leg, on any registry
\* ------------------------------------------------------------------------
LegNames == {"BTC", "BTCST", "USDT", "ETH"}
LegSymbols == {"BTCUSDT", "BTCSTBTC", "BTCSTUSDT", "ETHBTC", "ETHUSDT"}

LegInit ==
  /\ call_pc = "ready"
  /\ call_args \in {a \in [from : LegNames, to : LegNames, registry : SUBSET LegSymbols] :
                      a.from # a.to}
  /\ call_result = None

LegCall ==
  /\ call_pc = "ready"
  /\ call_pc' = "returned"
  /\ LET symbol == pick_symbol(call_args, call_args.registry)
     IN call_result' = Some([symbol |-> symbol,
                             direction |-> pick_direction(call_args, symbol)])
  /\ UNCHANGED call_args /\ CallOnly

\* ------------------------------------------------------------------------
\* arb_detection.rs: store_arb_cycle, called by the tasks that persist
\* ------------------------------------------------------------------------
Storers == {1, 2}

StoreInit ==
  /\ csv_exists = FALSE
  /\ csv_rows = <<>>
  /\ store_pc = [c \in Storers |-> "idle"]
  /\ store_saw = [c \in Storers |-> FALSE]
  /\ store_id = [c \in Storers |-> 0]
  /\ store_log = <<>>
  /\ store_started = 0
  /\ store_overlapped = FALSE
  /\ store_failed = FALSE

\* WriterBuilder::new().has_headers(..)
has_headers_always(file_exists) == TRUE
has_headers(file_exists) == ~file_exists

\* the call up to `let file_exists = ..exists()`
StoreCheck(c) ==
  /\ store_pc[c] = "idle"
  /\ store_started < MaxStores
  /\ store_started' = store_started + 1
  /\ store_id' = [store_id EXCEPT ![c] = store_started + 1]
  /\ store_saw' = [store_saw EXCEPT ![c] = csv_exists]
  /\ store_pc' = [store_pc EXCEPT ![c] = "checked"]
  /\ store_overlapped' = (store_overlapped \/ \E o \in Storers \ {c} : store_pc[o] # "idle")
  /\ UNCHANGED <<csv_exists, csv_rows, store_log, store_failed>>
  /\ StoreOnly

\* OpenOptions .. .create(true).open(file_path)?
StoreOpen(c, opened) ==
  /\ store_pc[c] = "checked"
  /\ IF opened
     THEN /\ csv_exists' = TRUE
          /\ store_pc' = [store_pc EXCEPT ![c] = "opened"]
          /\ UNCHANGED store_failed
     ELSE /\ store_pc' = [store_pc EXCEPT ![c] = "idle"]
          /\ store_failed' = TRUE
          /\ UNCHANGED csv_exists
  /\ UNCHANGED <<csv_rows, store_saw, store_id, store_log, store_started, store_overlapped>>
  /\ StoreOnly

\* wtr.serialize(data)?; wtr.flush()?; Ok(())
StoreWrite(c, written) ==
  /\ store_pc[c] = "opened"
  /\ store_pc' = [store_pc EXCEPT ![c] = "idle"]
  /\ IF written
     THEN /\ csv_rows' = csv_rows
                         \o (IF has_headers(store_saw[c]) THEN <<"header">> ELSE <<>>)
                         \o <<store_id[c]>>
          /\ store_log' = Append(store_log, store_id[c])
          /\ UNCHANGED store_failed
     ELSE /\ store_failed' = TRUE
          /\ UNCHANGED <<csv_rows, store_log>>
  /\ UNCHANGED <<csv_exists, store_saw, store_id, store_started, store_overlapped>>
  /\ StoreOnly

StoreNext ==
  \/ \E c \in Storers : StoreCheck(c)
  \/ \E c \in Storers, opened \in BOOLEAN : StoreOpen(c, opened)
  \/ \E c \in Storers, written \in BOOLEAN : StoreWrite(c, written)

\* ------------------------------------------------------------------------
\* helpers.rs: create_exchange_rates
\* ------------------------------------------------------------------------
RateSymbols == {"BTCUSDT", "ETHUSDT", "ETHBTC"}

ends_with(s, suffix) ==
  Len(suffix) <= Len(s) /\ SubSeq(s, Len(s) - Len(suffix) + 1, Len(s)) = suffix

\* symbol_info.quote_asset and symbol_info.base_asset of the symbols above
quote_asset(symbol) == IF ends_with(symbol, "USDT") THEN "USDT" ELSE "BTC"
base_asset(symbol) == SubSeq(symbol, 1, Len(symbol) - Len(quote_asset(symbol)))

\* the loop over the symbol map, in the order the map iterates
RECURSIVE create_exchange_rates(_, _)
create_exchange_rates(symbols, table) ==
  IF symbols = <<>> THEN <<>>
  ELSE LET symbol == Head(symbols)
           rest == create_exchange_rates(Tail(symbols), table)
       IN IF symbol \notin DOMAIN table THEN rest
          ELSE LET rate == table[symbol]
                   direct == <<base_asset(symbol), quote_asset(symbol), rate>>
                   inverse == <<quote_asset(symbol), base_asset(symbol), RDiv(RInt(1), rate)>>
               IN IF rate # RInt(0) THEN <<direct, inverse>> \o rest
                  ELSE <<direct>> \o rest

\* iteration orders of the symbol map and price tables over part of it
RateOrders ==
  {o \in [1 .. Cardinality(RateSymbols) -> RateSymbols] :
     \A i, j \in DOMAIN o : i # j => o[i] # o[j]}
RatePrices == {RInt(0), RInt(2), Frac(1, 2)}
RateTables == UNION {[S -> RatePrices] : S \in SUBSET RateSymbols}

RatesInit ==
  /\ call_pc = "ready"
  /\ call_args \in [symbols : RateOrders, prices : RateTables]
  /\ call_result = None

RatesCall ==
  /\ call_pc = "ready"
  /\ call_pc' = "returned"
  /\ call_result' = Some(create_exchange_rates(call_args.symbols, call_args.prices))
  /\ UNCHANGED call_args /\ CallOnly

\* the normalizer on symbol metadata, quantities from 0.00 to 1.20 by 0.01,
\* and both directions; step sizes 0.1, 0.25 and 1
NormSteps == {Pow10(MaxDecimals - 1), (5 * Pow10(MaxDecimals - 1)) \div 2, Pow10(MaxDecimals)}
NormPrecisions == {0, 1, 2}
NormQuantities == {j * Pow10(MaxDecimals - 2) : j \in 0 .. 120}

NormInfos ==
  { [symbol |-> "BTCUSDT",
     base_asset_precision |-> precision,
     quote_asset_precision |-> precision,
     min_qty |-> min_qty,
     max_qty |-> Num(Pow10(MaxDecimals)),
     step_size |-> Num(step_size),
     min_notional |-> Num(Pow10(MaxDecimals - 1)),
     max_notional |-> Num(3 * Pow10(MaxDecimals))] :
     precision \in NormPrecisions, step_size \in NormSteps,
     min_qty \in {Num(Pow10(MaxDecimals - 1)), Unparsable} }

NormInit ==
  /\ call_pc = "ready"
  /\ call_args \in [symbol_info : NormInfos, quantity : NormQuantities,
                     general_price : {2}, direction : {"Forward", "Reverse"}]
  /\ call_result = None

\* validate_quantity, and validate_quantity again on the quantity it returned
NormCall ==
  /\ call_pc = "ready"
  /\ call_pc' = "returned"
  /\ LET first == validate_quantity(call_args.symbol_info, call_args.quantity,
                                    call_args.general_price, call_args.direction)
     IN call_result' =
          Some([first |-> first,
                second |-> IF first.kind = "Ok"
                           THEN validate_quantity(call_args.symbol_info, first.qty,
                                                  call_args.general_price, call_args.direction)
                           ELSE first])
  /\ UNCHANGED call_args /\ CallOnly

\* ------------------------------------------------------------------------
\* Specifications: one per component, the other components at rest
\* ------------------------------------------------------------------------
\* every component starts from its own initial state
ValIdle ==
  /\ val_pc = "idle" /\ val_prices = EmptyMap /\ val_cycle = <<>> /\ val_symbols = <<>>
  /\ val_directions = <<>> /\ val_replies = <<>> /\ val_results = <<>>
  /\ val_orderbooks = <<>> /\ val_result = None

ModeIdle == MODE = [kind |-> "Searcher", is_store |-> FALSE, is_trade |-> FALSE]

Init == BfInit /\ WsInit /\ ValIdle /\ ModeIdle /\ ExIdle /\ CallIdle /\ StoreInit /\ ScanIdle

InitVal == BfInit /\ WsInit /\ ValInit /\ ModeIdle /\ ExIdle /\ CallIdle /\ StoreInit /\ ScanIdle

InitEx == BfInit /\ WsInit /\ ValIdle /\ ExInit /\ CallIdle /\ StoreInit /\ ScanIdle

\* the listener under each mode the constant can hold
InitWs == BfInit /\ WsInit /\ ValIdle /\ ExInit /\ CallIdle /\ StoreInit /\ ScanIdle

Rest == BfInit /\ WsInit /\ ValIdle /\ ModeIdle /\ ExIdle /\ StoreInit /\ ScanIdle

SpecStore == Init /\ [][StoreNext]_vars

InitLeg == Rest /\ LegInit

SpecLeg == InitLeg /\ [][LegCall]_vars

InitRounded == Rest /\ RoundedInit

SpecRounded == InitRounded /\ [][RoundedCall]_vars

InitChain == Rest /\ ChainInit

SpecChain == InitChain /\ [][ChainCall]_vars

InitWalk == Rest /\ WalkInit

SpecWalk == InitWalk /\ [][WalkCall]_vars

InitRates == Rest /\ RatesInit

SpecRates == InitRates /\ [][RatesCall]_vars

InitNorm == Rest /\ NormInit

SpecNorm == InitNorm /\ [][NormCall]_vars

InitMono == Rest /\ MonoInit

SpecMono == InitMono /\ [][MonoCall]_vars

SpecEx == InitEx /\ [][ExNext]_vars

SpecScan == InitEx /\ [][ScanNext]_vars

SpecVal == InitVal /\ [][ValNext]_vars

SpecBF == Init /\ [][BfNext]_vars

SpecWs == InitWs /\ [][WsNext]_vars

\* text messages keep arriving with the timer elapsed and the close succeeding,
\* connects succeed, and the runtime runs every spawned task
WsFairness ==
  /\ SF_vars(\E symbol \in WsSymbols, best_ask \in BestPrices, best_bid \in BestPrices :
               best_bid <= best_ask /\ WsMessage(symbol, best_ask, best_bid, TRUE, TRUE))
  /\ WF_vars(WsConnect(TRUE))
  /\ WF_vars(\E t \in 1 .. Len(tasks) : TaskBegin(t))
  /\ WF_vars(\E t \in 1 .. Len(tasks) : TaskEnd(t, "no_cycle"))

SpecWsLive == SpecWs /\ WsFairness

\* ------------------------------------------------------------------------
\* Properties of the finder
\* ------------------------------------------------------------------------
IsClosed(cycle) ==
  \A j \in 1 .. Len(cycle) :
    cycle[j].to = cycle[IF j = Len(cycle) THEN 1 ELSE j + 1].from

IsEdgeOfGraph(edge) == \E j \in 1 .. Len(edges) : edges[j] = edge

CycleSound(cycle) ==
  /\ IsClosed(cycle)
  /\ \A j \in 1 .. Len(cycle) : IsEdgeOfGraph(cycle[j])
  /\ SumWeights(cycle) < 0

first_reconstruction(es, m) ==
  LET st == relax_early_exit(es, m, init_state(m), number_of_currencies(m))
      k == first_violation(es, m, st.distance, 1)
  IN IF k = 0 THEN None
     ELSE Some(reconstruct(m, get_currency_index(m, es[k].to), st.predecessor))

\* C3 as claimed: every cycle value returned by find_negative_cycle and every
\* element of the output of find_all_negative_cycles has at least 3 edges, and
\* when the reconstruction from the violating vertex has 2 or fewer edges
\* find_negative_cycle returns none.
C3_NoTrivialCycleElseNone ==
  /\ (ran_one /\ cycle_opt.some) => Len(cycle_opt.val) >= 3
  /\ ran_all => \A j \in 1 .. Len(cycles) : Len(cycles[j]) >= 3
  /\ ran_one =>
       LET raw == first_reconstruction(edges, currency_index_map)
       IN (raw.some /\ Len(raw.val) <= 2) => cycle_opt = None

\* C3 as amended: find_negative_cycle never returns a cycle of 1 or 2 edges: a
\* returned edge list is empty or has at least 3 edges; every element of the
\* output of find_all_negative_cycles has at least 3 edges; and when the
\* reconstruction from the violating vertex has 2 or fewer edges
\* find_negative_cycle returns the empty edge list (Some(vec![])), not none.
C3_NoTrivialCycle ==
  /\ (ran_one /\ cycle_opt.some) =>
       (Len(cycle_opt.val) = 0 \/ Len(cycle_opt.val) >= 3)
  /\ ran_all => \A j \in 1 .. Len(cycles) : Len(cycles[j]) >= 3
  /\ ran_one =>
       LET raw == first_reconstruction(edges, currency_index_map)
       IN (raw.some /\ Len(raw.val) <= 2) => cycle_opt = Some(<<>>)

\* scenario S5: a rate pair whose product is above 1, here 100 and 0.1
C3_Witness ==
  /\ edges = <<Edge("A", "B", 2), Edge("B", "A", 0 - 1)>>
  /\ ran_one /\ ran_all
  /\ Len(first_reconstruction(edges, currency_index_map).val) = 2
  /\ cycle_opt = Some(<<>>)
  /\ cycles = <<>>

\* currencies reachable from `seen` along the edges
RECURSIVE Reachable(_)
Reachable(seen) ==
  LET more == seen \cup {edges[j].to : j \in {i \in 1 .. Len(edges) : edges[i].from \in seen}}
  IN IF more = seen THEN seen ELSE Reachable(more)

SourceCurrency == CHOOSE c \in DOMAIN currency_index_map : currency_index_map[c] = 0

WeightsBetween(a, b) ==
  {edges[j].weight : j \in {i \in 1 .. Len(edges) : edges[i].from = a /\ edges[i].to = b}}

RECURSIVE SetSum(_, _)
SetSum(f, S) ==
  IF S = {} THEN 0 ELSE LET x == CHOOSE y \in S : TRUE IN f[x] + SetSum(f, S \ {x})

\* a simple cycle of k >= 3 distinct currencies, visited in the order p
IsNegativeCycle(p, k) ==
  /\ \A i, j \in 1 .. k : i # j => p[i] # p[j]
  /\ \E w \in [1 .. k -> {log10_weight(r) : r \in RateExps}] :
       /\ \A i \in 1 .. k : w[i] \in WeightsBetween(p[i], p[IF i = k THEN 1 ELSE i + 1])
       /\ SetSum(w, 1 .. k) < 0

HasReachableNegativeCycle ==
  \E k \in 3 .. Cardinality(DOMAIN currency_index_map) :
    \E p \in [1 .. k -> DOMAIN currency_index_map] :
      /\ p[1] \in Reachable({SourceCurrency})
      /\ IsNegativeCycle(p, k)

\* C4: whenever the graph contains a negative-weight cycle of at least 3 edges
\* reachable from vertex 0, find_negative_cycle returns a cycle: its result is
\* not none and is not the empty edge list.
C4_ReachableCycleDetected ==
  (ran_one /\ HasReachableNegativeCycle) => (cycle_opt.some /\ cycle_opt.val # <<>>)

\* C5: the cycles returned by find_all_negative_cycles are pairwise disjoint:
\* no (from, to) endpoint pair occurs in two different returned cycles, and no
\* cycle is returned twice.
C5_DisjointCycles ==
  ran_all =>
    \A i, j \in 1 .. Len(cycles) :
      i < j =>
        /\ cycles[i] # cycles[j]
        /\ endpoint_pairs(currency_index_map, cycles[i])
             \cap endpoint_pairs(currency_index_map, cycles[j]) = {}

\* ------------------------------------------------------------------------
\* Properties of the stream listener
\* ------------------------------------------------------------------------
InFlight == {t \in 1 .. Len(tasks) : tasks[t] \in {"spawned", "running"}}

\* C1: at most one detection task is in flight at any time: from the moment a
\* detection is spawned until it completes, no message spawns a second one.
C1_SingleFlight == Cardinality(InFlight) <= 1

\* C11: once a detection task has panicked on a precondition or execution
\* failure the process is gone: the listener reads no further message,
\* opens no connection and runs no other task.
C11_TaskAbortStopsProcess ==
  [][task_panicked => UNCHANGED <<ws_pc, tickers, prices, tasks>>]_vars

Running == {t \in 1 .. Len(tasks) : tasks[t] = "running"}

\* C19: the latch is true only while a detection task is running, whatever
\* the way the tasks before it ended.
C19_LatchResetAtEnd == is_calculating => Running # {}

\* C20: whenever the open subscription differs from the shared best symbols,
\* the listener is eventually connected with a subscription equal to them.
C20_EventuallyResubscribed ==
  (ws_pc = "inner" /\ tickers # extract_tickers(shared_best_symbols))
    ~> (ws_pc = "inner" /\ tickers = extract_tickers(shared_best_symbols))

\* ------------------------------------------------------------------------
\* Properties of the validator
\* ------------------------------------------------------------------------
Count(seq, x) == Cardinality({j \in 1 .. Len(seq) : seq[j] = x})

SameLevels(a, b) ==
  /\ Len(a) = Len(b)
  /\ \A j \in 1 .. Len(a) : Count(a, a[j]) = Count(b, a[j])

IsAscending(book) == \A j \in 1 .. Len(book) - 1 : RLeq(book[j][1], book[j + 1][1])
IsDescending(book) == \A j \in 1 .. Len(book) - 1 : RLeq(book[j + 1][1], book[j][1])

IsAsksOf(book, reply) == SameLevels(book, parse_levels(reply.asks)) /\ IsAscending(book)
IsBidsOf(book, reply) == SameLevels(book, parse_levels(reply.bids)) /\ IsDescending(book)

PriceAbsent ==
  /\ val_cycle # <<>>
  /\ budget_symbol(val_cycle[1].from) # ""
  /\ budget_symbol(val_cycle[1].from) \notin DOMAIN val_prices

FetchFailed ==
  \E i \in 1 .. Len(val_replies) :
    val_replies[i] # <<>> /\ val_replies[i][1].kind \in {"http_error", "bad_json"}

InternalFailure ==
  \/ val_cycle = <<>>
  \/ val_cycle[1].from \notin ASSET_HOLDINGS
  \/ ~recognised_start(val_cycle[1].from)
  \/ PriceAbsent
  \/ FetchFailed

\* C12: a validation that met an internal failure has not aborted the
\* process, and when it has returned it has returned none.
C12_FailureReturnsNone ==
  (val_pc # "idle" /\ InternalFailure) =>
    /\ val_pc # "panicked"
    /\ val_pc = "done" => val_result = None

\* ------------------------------------------------------------------------
\* Properties of the weighted walk (SpecWalk)
\* ------------------------------------------------------------------------
LevelCost(level, direction) ==
  IF direction = "Reverse" THEN RMul(level[2], level[1]) ELSE level[2]

LevelOutput(level, direction) ==
  IF direction = "Reverse" THEN level[2] ELSE RMul(level[2], level[1])

RECURSIVE CumCost(_, _, _)
CumCost(book, direction, k) ==
  IF k = 0 THEN RInt(0)
  ELSE RAdd(CumCost(book, direction, k - 1), LevelCost(book[k], direction))

RECURSIVE CumOutput(_, _, _)
CumOutput(book, direction, k) ==
  IF k = 0 THEN RInt(0)
  ELSE RAdd(CumOutput(book, direction, k - 1), LevelOutput(book[k], direction))

\* how many levels fit in the budget in full
FullLevels(book, direction, budget) ==
  CHOOSE k \in 0 .. Len(book) :
    /\ RLeq(CumCost(book, direction, k), budget)
    /\ k = Len(book) \/ RLess(budget, CumCost(book, direction, k + 1))

ExpectedWalk(book, direction, budget) ==
  LET k == FullLevels(book, direction, budget)
      remaining == RSub(budget, CumCost(book, direction, k))
      residual == IF k = Len(book) THEN RInt(0)
                  ELSE IF direction = "Reverse" THEN RDiv(remaining, book[k + 1][1])
                  ELSE RMul(remaining, book[k + 1][1])
      cost == IF k = Len(book) THEN CumCost(book, direction, k) ELSE budget
      quantity == RAdd(CumOutput(book, direction, k), residual)
  IN [weighted_price |-> IF direction = "Reverse" THEN RDiv(cost, quantity)
                         ELSE RDiv(quantity, cost),
      total_cost |-> cost,
      total_quantity |-> quantity]

\* C13: on a non-empty book of positive levels and a positive budget the
\* walk returns the output of the levels consumed in full plus the residual
\* output of the first level that would exceed the budget, with weighted
\* price quantity/cost for Forward and cost/quantity for Reverse; S3 gives
\* cost 2, quantity 201, price 100.5 and S4 gives quantity 0.5 + 10/99.
C13_WeightedWalk ==
  (call_pc = "returned" /\ call_args.orderbook # <<>>) =>
    /\ call_result =
         Some(ExpectedWalk(call_args.orderbook, call_args.direction, call_args.budget))
    /\ call_args = S3Walk =>
         call_result.val = [weighted_price |-> Frac(201, 2), total_cost |-> RInt(2),
                            total_quantity |-> RInt(201)]
    /\ call_args = S4Walk =>
         call_result.val.total_quantity = RAdd(Frac(1, 2), Frac(10, 99))

\* the levels the walk has to read before the cumulative cost reaches the budget
LevelsNeeded(book, direction, budget) ==
  IF RLess(CumCost(book, direction, Len(book)), budget) THEN Len(book)
  ELSE CHOOSE k \in 0 .. Len(book) :
         /\ RLeq(budget, CumCost(book, direction, k))
         /\ \A j \in 0 .. k - 1 : RLess(CumCost(book, direction, j), budget)

\* C27: the walk never spends more than the budget: total_cost <= B at the
\* end, total_cost = B exactly when the book's cumulative cost-side depth is at
\* least B, and no level is read after total_cost has reached B.
C27_NeverOverBudget ==
  call_pc = "returned" =>
    LET depth == CumCost(call_args.orderbook, call_args.direction, Len(call_args.orderbook))
    IN /\ RLeq(call_result.total_cost, call_args.budget)
       /\ call_result.total_cost = call_args.budget <=> RLeq(call_args.budget, depth)
       /\ call_result.levels
            <= LevelsNeeded(call_args.orderbook, call_args.direction, call_args.budget)

\* the partial fill of S4 has been walked
C13_Witness ==
  /\ call_pc = "returned"
  /\ call_args = S4Walk
  /\ call_result.some
  /\ call_result.val.total_cost = RInt(60)

RECURSIVE ChainIn(_)
ChainIn(i) ==
  IF i = 1 THEN call_args.budget
  ELSE ExpectedWalk(call_args.orderbooks[i - 1], call_args.directions[i - 1],
                    ChainIn(i - 1)).total_quantity

ChainOut(i) ==
  ExpectedWalk(call_args.orderbooks[i], call_args.directions[i], ChainIn(i)).total_quantity

\* the book of leg i absorbs the whole amount that enters the leg
DeepEnough(i) ==
  RLeq(ChainIn(i),
       CumCost(call_args.orderbooks[i], call_args.directions[i], Len(call_args.orderbooks[i])))

C15_NormalizerIdempotent ==
  (call_pc = "returned" /\ call_result.val.first.kind = "Ok") =>
    call_result.val.second = call_result.val.first

\* C16: a quantity returned by a successful Forward normalization is a whole
\* multiple of the symbol's step_size.
C16_StepAligned ==
  ( /\ call_pc = "returned"
    /\ call_args.direction = "Forward"
    /\ call_result.val.first.kind = "Ok" )
  => call_result.val.first.qty % call_args.symbol_info.step_size.val = 0

EdgesOf(symbol, rates) ==
  {i \in 1 .. Len(rates) :
     {rates[i][1], rates[i][2]} = {base_asset(symbol), quote_asset(symbol)}}

\* C17: a symbol with a price p yields both (base, quote, p) and
\* (quote, base, 1/p) or nothing, a symbol without a price yields nothing,
\* and every edge has a rate above zero.
C17_BothEdgesPositive ==
  call_pc = "returned" =>
    LET rates == call_result.val
    IN /\ \A i \in 1 .. Len(rates) : RLess(RInt(0), rates[i][3])
       /\ \A symbol \in RateSymbols :
            IF symbol \in DOMAIN call_args.prices
            THEN \/ EdgesOf(symbol, rates) = {}
                 \/ \E i, j \in EdgesOf(symbol, rates) :
                      /\ EdgesOf(symbol, rates) = {i, j}
                      /\ rates[i] = <<base_asset(symbol), quote_asset(symbol),
                                      call_args.prices[symbol]>>
                      /\ rates[j] = <<quote_asset(symbol), base_asset(symbol),
                                      RDiv(RInt(1), call_args.prices[symbol])>>
            ELSE EdgesOf(symbol, rates) = {}

\* the relaxation of find_negative_cycle and of find_all_negative_cycles
RelaxedOne ==
  relax_early_exit(edges, currency_index_map, init_state(currency_index_map),
                   number_of_currencies(currency_index_map))
RelaxedAll ==
  relax_all_rounds(edges, currency_index_map, init_state(currency_index_map),
                   number_of_currencies(currency_index_map))

\* C29: the early exit of find_negative_cycle does not change its outcome: its
\* distance and predecessor arrays equal those after the V full rounds of
\* find_all_negative_cycles, both see the same first violating edge, and a
\* non-empty cycle it returns is the first element of the other's output.
C29_EarlyExitSameOutcome ==
  (ran_one /\ ran_all) =>
    /\ RelaxedOne.distance = RelaxedAll.distance
    /\ RelaxedOne.predecessor = RelaxedAll.predecessor
    /\ first_violation(edges, currency_index_map, RelaxedOne.distance, 1)
         = first_violation(edges, currency_index_map, RelaxedAll.distance, 1)
    /\ (cycle_opt.some /\ cycle_opt.val # <<>>) =>
         cycles # <<>> /\ cycles[1] = cycle_opt.val

\* the early exit was taken before the last round, after a round that relaxed
\* the second edge of a path
C29_Witness ==
  /\ ran_one /\ ran_all
  /\ number_of_currencies(currency_index_map) = 3
  /\ ~relax_early_exit(edges, currency_index_map, init_state(currency_index_map), 2).update
  /\ \A v \in 0 .. 2 : RelaxedOne.distance[v] # Infinity

\* C21: a read error in the inner loop breaks to the outer loop, which
\* reconnects; the listener never ends in a panic from inside the inner loop.
C21_ReadErrorReconnects == [][ws_pc = "inner" => ws_pc' # "panicked"]_vars

\* C22: the scanner trades a cycle only if it is short enough, validated with
\* a result, at or over the threshold and the mode's trade flag is set; it
\* persists only under the same first three conditions and the persist flag;
\* a cycle over MAX_CYCLE_LENGTH is never validated, traded or persisted.
C22_ScannerGuards ==
  LET passed == /\ Len(scan_last.cycle) <= MAX_CYCLE_LENGTH
                /\ scan_last.validated /\ scan_last.validation = "some"
                /\ scan_last.arb_rate >= MIN_ARB_THRESH
  IN /\ scan_last.traded # "no" => passed /\ MODE.is_trade
     /\ scan_last.persisted # "no" => passed /\ MODE.is_store
     /\ Len(scan_last.cycle) > MAX_CYCLE_LENGTH =>
          ~scan_last.validated /\ scan_last.traded = "no" /\ scan_last.persisted = "no"

\* a cycle traded and persisted in the second iteration
C22_Witness ==
  /\ scan_last.traded = "ok" /\ scan_last.persisted = "ok"
  /\ scan_round = 2 /\ scan_cycles # <<>>

\* C23: a failed persist is recorded and the scanner loop keeps running.
C23_PersistFailureContinues == scan_last.persisted = "failed" => scan_pc = "loop"

\* C26: the leg's symbol is to+from when the registry has it and from+to
\* otherwise; the direction is Forward exactly when the picked symbol is
\* from+to and Reverse exactly when it is to+from, whatever the names.
C26_DirectionMatchesSymbol ==
  call_pc = "returned" =>
    LET from == call_args.from
        to == call_args.to
        picked == call_result.val
    IN /\ picked.symbol = IF (to \o from) \in call_args.registry THEN to \o from
                          ELSE from \o to
       /\ picked.direction = "Forward" <=> picked.symbol = from \o to
       /\ picked.direction = "Reverse" <=> picked.symbol = to \o from

StoresAtRest == \A c \in Storers : store_pc[c] = "idle"

\* C18: starting from no file, after one or more stores that ran one after
\* the other and all succeeded, the file exists and holds the header once,
\* as its first row, then one data row per store in the order of the stores.
C18_HeaderOnceRowsInOrder ==
  ( /\ StoresAtRest
    /\ store_log # <<>>
    /\ ~store_overlapped
    /\ ~store_failed )
  => /\ csv_exists
     /\ csv_rows = <<"header">> \o store_log
     /\ store_log = [k \in 1 .. store_started |-> k]

\* three stores in a row, by both callers
C18_Witness ==
  /\ StoresAtRest
  /\ ~store_overlapped /\ ~store_failed
  /\ Len(store_log) >= 3
  /\ store_id[1] # 0 /\ store_id[2] # 0

\* ------------------------------------------------------------------------
\* Properties of the execution sequencer (SpecEx)
\* ------------------------------------------------------------------------
ExStarted == ex_balances # <<>> \/ ex_orders # <<>>

\* C7: no balance is queried and no order is placed unless the trade flag is
\* set, the sequence has between 3 and MAX_CYCLE_LENGTH legs, the symbol and
\* direction lists have equal length and the starting currency is held.
C7_PreconditionsBeforeTrading ==
  ExStarted =>
    /\ MODE.is_trade
    /\ Len(ex_call.symbols) >= 3
    /\ Len(ex_call.symbols) <= MAX_CYCLE_LENGTH
    /\ Len(ex_call.symbols) = Len(ex_call.directions)
    /\ ex_call.cycle[1].from \in ASSET_HOLDINGS

\* a trading scanner refuses a two-leg sequence before touching the exchange
C7_Witness ==
  /\ ex_pc = "panicked"
  /\ ~ExStarted
  /\ MODE.is_trade /\ MODE.kind = "Searcher"
  /\ Len(ex_call.symbols) < 3
  /\ ex_call.cycle[1].from \in ASSET_HOLDINGS

BadResult(result) ==
  result.kind = "Err" \/ result.status # "FILLED" \/ result.base = 0

\* C8: an order that comes back in error, not FILLED, or with executed base
\* quantity 0 is the last order of the run: the run has aborted, and every
\* order of the run is the order of its own leg (none compensates another).
C8_AbortAtFailedLeg ==
  \A j \in 1 .. Len(ex_orders) :
    /\ ex_orders[j].leg = j
    /\ ex_orders[j].symbol = ex_call.symbols[j]
    /\ ex_orders[j].side = (IF ex_call.directions[j] = "Forward" THEN "SELL" ELSE "BUY")
    /\ BadResult(ex_orders[j].result) => j = Len(ex_orders) /\ ex_pc = "panicked"

\* the second leg's order is not filled after the first leg was
C8_Witness ==
  /\ Len(ex_orders) = 2
  /\ ~BadResult(ex_orders[1].result)
  /\ ex_orders[2].result.kind = "Ok" /\ ex_orders[2].result.status = "EXPIRED"
  /\ ex_pc = "panicked"

Carried(direction, result) == IF direction = "Forward" THEN result.quote ELSE result.base

\* C9: legs run in cycle order, a leg starts only after the fill of the one
\* before it, and the amount carried into leg j+1 is the quote quantity of
\* leg j's fill when leg j is Forward and its base quantity when it is Reverse.
C9_OrderedThreading ==
  /\ Len(ex_amount_in) <= Len(ex_orders) + 1
  /\ Len(ex_orders) <= Len(ex_amount_in)
  /\ \A j \in 1 .. Len(ex_orders) :
       /\ ex_orders[j].leg = j
       /\ ex_orders[j].direction = ex_call.directions[j]
       /\ j < Len(ex_orders) => ex_orders[j].result.kind = "Ok"
  /\ \A j \in 1 .. Len(ex_amount_in) :
       ex_amount_in[j] = IF j = 1 THEN ex_call.budget
                         ELSE Carried(ex_call.directions[j - 1], ex_orders[j - 1].result)

\* a completed run that carried both a quote and a base quantity forward
C9_Witness ==
  /\ ex_pc = "done"
  /\ Len(ex_amount_in) >= 3
  /\ ex_call.directions[1] # ex_call.directions[2]
  /\ ex_amount_in[2] # ex_amount_in[3]

Smaller(a, b) == IF a <= b THEN a ELSE b

\* the amount of leg j after the balance clamp, and what normalization makes of it
Clamped(j) == Smaller(ex_amount_in[j], ex_balances[j].free)
Normalized(j) ==
  validate_quantity(SymbolInfo(ex_call.symbols[j]), Clamped(j),
                    general_prices(ex_call.symbols[j]), ex_call.directions[j])

\* C24: before each leg's order the executor reads the free balance of the
\* leg's `from` currency; a zero balance aborts with no order for that leg,
\* otherwise the leg's amount becomes min(amount_in, balance).
C24_BalanceClamp ==
  /\ Len(ex_orders) <= Len(ex_balances)
  /\ \A j \in 1 .. Len(ex_balances) :
       /\ ex_balances[j].asset = ex_call.cycle[j].from
       /\ ex_balances[j].free = 0 =>
            ex_pc = "panicked" /\ j = Len(ex_balances) /\ Len(ex_orders) = j - 1
  /\ ex_pc = "order" =>
       /\ Len(ex_balances) = ex_i
       /\ ex_quantity = IF Normalized(ex_i).kind = "Ok" THEN Normalized(ex_i).qty
                        ELSE Clamped(ex_i)

\* the second leg's amount is cut down to a smaller balance
C24_Witness ==
  /\ ex_pc = "order" /\ ex_i = 2
  /\ ex_balances[2].free < ex_amount_in[2]
  /\ ex_quantity <= ex_balances[2].free

\* leg j reached its normalization: its balance was read, was not zero, and
\* its symbol is in the registry
Normalizing(j) ==
  /\ j <= Len(ex_balances)
  /\ ex_balances[j].free # 0
  /\ ex_call.symbols[j] \in ExRegistry

\* leg j's order is placed, or about to be, with the balance-clamped amount
OrderedUnchanged(j) ==
  \/ ex_pc = "order" /\ ex_i = j /\ ex_quantity = Clamped(j)
  \/ Len(ex_orders) >= j /\ ex_orders[j].quantity = Clamped(j)

\* C25: whenever normalization of a leg's quantity does not succeed, whatever
\* the cause, the executor still places the leg's order with the
\* balance-clamped quantity unchanged.
C25_FallbackOnEveryFailure ==
  \A j \in 1 .. Len(ex_balances) :
    (Normalizing(j) /\ Normalized(j).kind # "Ok") => OrderedUnchanged(j)

\* C28: the quantity of each market order never exceeds the free balance
\* read for the leg's input asset just before it, whether normalization
\* succeeded or fell back to the clamped value.
C28_OrderWithinBalance ==
  \A j \in 1 .. Len(ex_orders) : ex_orders[j].quantity <= ex_balances[j].free

\* the exchange answers as the mock of scenario S6 does
AnswersAsS6 ==
  /\ \A j \in 1 .. Len(ex_balances) : ex_balances[j].free # 0
  /\ \A j \in 1 .. Len(ex_orders) : j <= 2 /\ ex_orders[j].result = <<S6Fill1, S6Fill2>>[j]

\* C10 as stated: a two-leg run, Forward then Reverse, with the fills of
\* scenario S6, ends with both orders placed and 30000 carried into leg 2.
C10_TwoLegsBothPlaced ==
  ( /\ ex_pc \in {"done", "panicked"}
    /\ ex_call.directions = <<"Forward", "Reverse">>
    /\ scanner_flags(MODE).is_trade
    /\ AnswersAsS6 )
  => /\ Len(ex_orders) = 2
     /\ ex_amount_in[2] = 3000000

\* C10: in a three-leg run whose first two legs are Forward then Reverse and
\* whose first order is filled with base 1.0 and quote 30000, leg 2 starts
\* with 30000, a non-zero balance for leg 2 leads to its order, and the
\* second order is the BUY of leg 2.
C10_ThreeLegsSecondInput ==
  ( /\ Len(ex_call.symbols) = 3
    /\ SubSeq(ex_call.directions, 1, 2) = <<"Forward", "Reverse">>
    /\ Len(ex_orders) >= 1
    /\ ex_orders[1].result = S6Fill1 )
  => /\ Len(ex_amount_in) >= 2
     /\ ex_amount_in[2] = 3000000
     /\ (Len(ex_balances) >= 2 /\ ex_balances[2].free # 0)
          => (ex_pc = "order" /\ ex_i = 2) \/ Len(ex_orders) >= 2
     /\ Len(ex_orders) >= 2
          => ex_orders[2].symbol = ex_call.symbols[2] /\ ex_orders[2].side = "BUY"

\* both orders of scenario S6 placed and filled, a third leg to go
C10_Witness ==
  /\ ex_call.directions = <<"Forward", "Reverse", "Forward">>
  /\ Len(ex_orders) = 2
  /\ ex_orders[1].result = S6Fill1
  /\ ex_orders[2].result = S6Fill2
  /\ ex_amount_in = <<ex_call.budget, 3000000, 2>>

====
